---- MODULE Spec2Model ----
(***************************************************************************)
(* SMAZ short-string compression for MicroPython: the English engine       *)
(* (smaz.py, class Smaz) and the multilingual engine (smaz_multilang.py,   *)
(* class SmazMultilang).  Characters are modelled by their code points     *)
(* (ord), a Python str by a sequence of code points, chr(n) by n.          *)
(***************************************************************************)
EXTENDS Integers, Sequences, FiniteSets, TLC

(* ------------------------------------------------------------------ *)
(* Program constants                                                  *)
(* ------------------------------------------------------------------ *)

\* range(min(7, max_len - pos), 0, -1): the widest window the tokenizer tries
MaxMatchLen == 7

\* len(verbatim) == 255 forces a flush; _encapsulate chunks by 255
MaxVerbatim == 255

\* chr(254): one verbatim character follows
VerbatimByte == 254

\* chr(255): a length byte and a verbatim run follow
VerbatimRun == 255

\* SmazMultilang._create_lookup: "if enc_byte >= 254: break"
LookupLimit == 254

\* _is_ascii / check_ascii: ord(ch) >= 128 is not ASCII
AsciiLimit == 128

(* ------------------------------------------------------------------ *)
(* The two decoding tables, entry by entry, as code points            *)
(* ------------------------------------------------------------------ *)

Smaz_DECODE ==
  <<
    <<32>>, <<116,104,101>>, <<101>>, <<116>>, <<97>>, <<111,102>>, <<111>>,
    <<97,110,100>>, <<105>>, <<110>>, <<115>>, <<101,32>>, <<114>>, <<32,116,104>>,
    <<32,116>>, <<105,110>>, <<104,101>>, <<116,104>>, <<104>>, <<104,101,32>>,
    <<116,111>>, <<13,10>>, <<108>>, <<115,32>>, <<100>>, <<32,97>>, <<97,110>>,
    <<101,114>>, <<99>>, <<32,111>>, <<100,32>>, <<111,110>>, <<32,111,102>>, <<114,101>>,
    <<111,102,32>>, <<116,32>>, <<44,32>>, <<105,115>>, <<117>>, <<97,116>>, <<32,32,32>>,
    <<110,32>>, <<111,114>>, <<119,104,105,99,104>>, <<102>>, <<109>>, <<97,115>>,
    <<105,116>>, <<116,104,97,116>>, <<10>>, <<119,97,115>>, <<101,110>>, <<32,32>>,
    <<32,119>>, <<101,115>>, <<32,97,110>>, <<32,105>>, <<13>>, <<102,32>>, <<103>>,
    <<112>>, <<110,100>>, <<32,115>>, <<110,100,32>>, <<101,100,32>>, <<119>>, <<101,100>>,
    <<104,116,116,112,58,47,47>>, <<102,111,114>>, <<116,101>>, <<105,110,103>>,
    <<121,32>>, <<84,104,101>>, <<32,99>>, <<116,105>>, <<114,32>>, <<104,105,115>>,
    <<115,116>>, <<32,105,110>>, <<97,114>>, <<110,116>>, <<44>>, <<32,116,111>>, <<121>>,
    <<110,103>>, <<32,104>>, <<119,105,116,104>>, <<108,101>>, <<97,108>>, <<116,111,32>>,
    <<98>>, <<111,117>>, <<98,101>>, <<119,101,114,101>>, <<32,98>>, <<115,101>>,
    <<111,32>>, <<101,110,116>>, <<104,97>>, <<110,103,32>>, <<116,104,101,105,114>>,
    <<34>>, <<104,105>>, <<102,114,111,109>>, <<32,102>>, <<105,110,32>>, <<100,101>>,
    <<105,111,110>>, <<109,101>>, <<118>>, <<46>>, <<118,101>>, <<97,108,108>>,
    <<114,101,32>>, <<114,105>>, <<114,111>>, <<105,115,32>>, <<99,111>>, <<102,32,116>>,
    <<97,114,101>>, <<101,97>>, <<46,32>>, <<104,101,114>>, <<32,109>>, <<101,114,32>>,
    <<32,112>>, <<101,115,32>>, <<98,121>>, <<116,104,101,121>>, <<100,105>>, <<114,97>>,
    <<105,99>>, <<110,111,116>>, <<115,44,32>>, <<100,32,116>>, <<97,116,32>>, <<99,101>>,
    <<108,97>>, <<104,32>>, <<110,101>>, <<97,115,32>>, <<116,105,111>>, <<111,110,32>>,
    <<110,32,116>>, <<105,111>>, <<119,101>>, <<32,97,32>>, <<111,109>>, <<44,32,97>>,
    <<115,32,111>>, <<117,114>>, <<108,105>>, <<108,108>>, <<99,104>>, <<104,97,100>>,
    <<116,104,105,115>>, <<101,32,116>>, <<103,32>>, <<101,13,10>>, <<32,119,104>>,
    <<101,114,101>>, <<32,99,111>>, <<101,32,111>>, <<97,32>>, <<117,115>>, <<32,100>>,
    <<115,115>>, <<10,13,10>>, <<13,10,13>>, <<61,34>>, <<32,98,101>>, <<32,101>>,
    <<115,32,97>>, <<109,97>>, <<111,110,101>>, <<116,32,116>>, <<111,114,32>>,
    <<98,117,116>>, <<101,108>>, <<115,111>>, <<108,32>>, <<101,32,115>>, <<115,44>>,
    <<110,111>>, <<116,101,114>>, <<32,119,97>>, <<105,118>>, <<104,111>>, <<101,32,97>>,
    <<32,114>>, <<104,97,116>>, <<115,32,116>>, <<110,115>>, <<99,104,32>>, <<119,104>>,
    <<116,114>>, <<117,116>>, <<47>>, <<104,97,118,101>>, <<108,121,32>>, <<116,97>>,
    <<32,104,97>>, <<32,111,110>>, <<116,104,97>>, <<45>>, <<32,108>>, <<97,116,105>>,
    <<101,110,32>>, <<112,101>>, <<32,114,101>>, <<116,104,101,114,101>>, <<97,115,115>>,
    <<115,105>>, <<32,102,111>>, <<119,97>>, <<101,99>>, <<111,117,114>>, <<119,104,111>>,
    <<105,116,115>>, <<122>>, <<102,111>>, <<114,115>>, <<62>>, <<111,116>>, <<117,110>>,
    <<60>>, <<105,109>>, <<116,104,32>>, <<110,99>>, <<97,116,101>>, <<62,60>>,
    <<118,101,114>>, <<97,100>>, <<32,119,101>>, <<108,121>>, <<101,101>>, <<32,110>>,
    <<105,100>>, <<32,99,108>>, <<97,99>>, <<105,108>>, <<60,47>>, <<114,116>>,
    <<32,119,105>>, <<100,105,118>>, <<101,44,32>>, <<32,105,116>>, <<119,104,105>>,
    <<32,109,97>>, <<103,101>>, <<120>>, <<101,32,99>>, <<109,101,110>>, <<46,99,111,109>>
  >>

SmazMultilang_DECODE ==
  <<
    <<32>>, <<101>>, <<97>>, <<111>>, <<110>>, <<105>>, <<115>>, <<114>>, <<108>>, <<116>>,
    <<100>>, <<99>>, <<109>>, <<117>>, <<112>>, <<98>>, <<103>>, <<118>>, <<102>>, <<121>>,
    <<104>>, <<106>>, <<107>>, <<119>>, <<122>>, <<120>>, <<113>>, <<101,110>>,
    <<101,115>>, <<100,101>>, <<108,97>>, <<101,108>>, <<97,114>>, <<111,110>>,
    <<105,110>>, <<111,114>>, <<101,114>>, <<97,110>>, <<116,101>>, <<114,97>>, <<97,108>>,
    <<115,116>>, <<110,116>>, <<116,111>>, <<114,101>>, <<108,108>>, <<99,111>>,
    <<108,101>>, <<115,101>>, <<111,115>>, <<97,115>>, <<116,97>>, <<110,100>>,
    <<109,101>>, <<108,111>>, <<114,111>>, <<112,111>>, <<113,117>>, <<100,105>>,
    <<99,97>>, <<115,105>>, <<116,105>>, <<108,105>>, <<100,111>>, <<116,114>>, <<109,97>>,
    <<99,104>>, <<117,101>>, <<99,105>>, <<112,114>>, <<112,97>>, <<114,105>>, <<115,117>>,
    <<109,105>>, <<109,111>>, <<117,110>>, <<104,97>>, <<110,111>>, <<121,97>>,
    <<113,117,101>>, <<99,111,110>>, <<108,111,115>>, <<108,97,115>>, <<112,111,114>>,
    <<117,110,97>>, <<112,97,114,97>>, <<100,101,108>>, <<101,115,116,225>>,
    <<112,101,114,111>>, <<109,225,115>>, <<99,111,109,111>>, <<98,105,101,110>>,
    <<116,111,100,111>>, <<101,115,116,97>>, <<99,97,100,97>>, <<115,111,98,114,101>>,
    <<101,110,116,114,101>>, <<109,117,121>>, <<104,97,121>>, <<100,101,98,101>>,
    <<97,115,237>>, <<112,111,99,111>>, <<97,108,103,111>>, <<115,111,108,111>>,
    <<99,105,243,110>>, <<109,101,110,116,101>>, <<100,97,100>>, <<97,100,111>>,
    <<105,100,111>>, <<97,110,100,111>>, <<116,104,101>>, <<97,110,100>>, <<105,110,103>>,
    <<111,102>>, <<116,111>>, <<105,115>>, <<116,104,97,116>>, <<102,111,114>>,
    <<121,111,117>>, <<110,111,116>>, <<119,105,116,104>>, <<116,104,105,115>>,
    <<97,114,101>>, <<104,97,118,101>>, <<98,101>>, <<116,104,101,121>>,
    <<102,114,111,109>>, <<97,116>>, <<111,110,101>>, <<97,108,108>>, <<98,121>>,
    <<119,97,115>>, <<119,101,114,101>>, <<119,104,97,116>>, <<119,104,101,110>>,
    <<104,111,119>>, <<116,105,111,110>>, <<97,98,108,101>>, <<105,118,101>>, <<101,100>>,
    <<108,121>>, <<101,116>>, <<100,97,110,115>>, <<112,111,117,114>>, <<108,101,115>>,
    <<100,101,115>>, <<101,115,116>>, <<99,104,101>>, <<112,101,114>>, <<110,111,110>>,
    <<115,111,110,111>>, <<117,109,97>>, <<100,97,115>>, <<100,101,114>>, <<100,97,115>>,
    <<117,110,100>>, <<105,115,116>>, <<100,101,110>>, <<101,105,110>>, <<113,117,105>>,
    <<112,97,114>>, <<100,97,110,115>>, <<99,111,109>>, <<110,101>>, <<97,117>>,
    <<231,97>>, <<99,101>>, <<106,101>>, <<116,117>>, <<105,108>>, <<100,97>>, <<110,97>>,
    <<101,109>>, <<118,111,114>>, <<110,97,99,104>>, <<98,101,105>>, <<122,117,109>>,
    <<225>>, <<233>>, <<237>>, <<243>>, <<250>>, <<252>>, <<241>>, <<231>>, <<227>>,
    <<245>>, <<226>>, <<234>>, <<238>>, <<244>>, <<251>>, <<224>>, <<232>>, <<236>>,
    <<242>>, <<249>>, <<228>>, <<235>>, <<239>>, <<246>>, <<252>>, <<223>>, <<46>>, <<44>>,
    <<58>>, <<59>>, <<63>>, <<33>>, <<40>>, <<41>>, <<45>>, <<47>>, <<39>>, <<34>>, <<10>>,
    <<13>>, <<13,10>>, <<48>>, <<49>>, <<50>>, <<51>>, <<52>>, <<53>>, <<54>>, <<55>>,
    <<56>>, <<57>>, <<49,48>>, <<50,48>>, <<51,48>>, <<48,48>>,
    <<104,116,116,112,58,47,47>>, <<104,116,116,112,115,58,47,47>>, <<46,99,111,109>>,
    <<46,111,114,103>>, <<46,110,101,116>>, <<46,105,111>>, <<119,119,119,46>>, <<64>>,
    <<38>>, <<37>>, <<43>>, <<61>>, <<35>>, <<42>>, <<36>>, <<8364>>, <<163>>, <<60>>,
    <<62>>, <<91>>, <<93>>, <<123>>, <<125>>, <<95>>, <<124>>, <<92>>, <<111,107>>,
    <<104,105>>, <<104,101,108,108,111>>, <<121,101,115>>, <<110,111>>, <<104,111,108,97>>,
    <<103,114,97,99,105,97,115>>, <<105,110,102,111>>, <<104,101,108,112>>,
    <<101,114,114,111,114>>, <<117,115,101,114>>, <<110,97,109,101>>,
    <<101,109,97,105,108>>, <<112,97,115,115,119,111,114,100>>, <<108,111,103,105,110>>,
    <<102,105,108,101>>, <<109,101,110,117>>, <<104,111,109,101>>, <<100,97,116,101>>,
    <<116,105,109,101>>, <<100,97,121>>, <<109,111,110,116,104>>, <<121,101,97,114>>,
    <<50,48,50,52>>, <<50,48,50,53>>, <<106,97,110>>, <<102,101,98>>, <<109,97,114>>,
    <<97,112,114>>, <<109,97,121>>, <<106,117,110>>, <<106,117,108>>, <<97,117,103>>,
    <<115,101,112>>, <<111,99,116>>, <<110,111,118>>, <<100,101,99>>, <<109,111,110>>,
    <<116,117,101>>, <<119,101,100>>, <<116,104,117>>, <<102,114,105>>, <<115,97,116>>,
    <<115,117,110>>, <<191>>, <<161>>, <<171>>, <<187>>, <<8222>>, <<44,32>>, <<8218>>,
    <<39>>, <<39>>, <<8249>>, <<8250>>, <<8211>>, <<8212>>, <<8230>>
  >>

Min(a, b) == IF a < b THEN a ELSE b

Engines == {"Smaz", "SmazMultilang"}

DECODE(engine) == IF engine = "Smaz" THEN Smaz_DECODE ELSE SmazMultilang_DECODE

(* ------------------------------------------------------------------ *)
(* _create_lookup: the reverse map text -> chr(enc_byte); a later      *)
(* entry with the same text overwrites the earlier one                 *)
(* ------------------------------------------------------------------ *)

RECURSIVE StoreEntriesFromOne(_, _, _)
\* StoreEntries with the codes counted from 1 ("enumerate(self.DECODE, 1)")
StoreEntriesFromOne(table, lo, hi) ==
  IF hi <= lo THEN <<>>
  ELSE IF hi = lo + 1 THEN table[lo + 1] :> (lo + 1)
  ELSE LET mid == (lo + hi) \div 2
       IN  StoreEntriesFromOne(table, mid, hi) @@ StoreEntriesFromOne(table, lo, mid)

RECURSIVE StoreEntries(_, _, _)
\* the dict after the loop's passes enc_byte = lo .. hi - 1 ("lookup[text] =
\* chr(enc_byte)"), run as two halves: a store of the later half overwrites a
\* store of the same text by the earlier half
StoreEntries(table, lo, hi) ==
  IF hi <= lo THEN <<>>
  ELSE IF hi = lo + 1 THEN table[lo + 1] :> lo
  ELSE LET mid == (lo + hi) \div 2
       IN  StoreEntries(table, mid, hi) @@ StoreEntries(table, lo, mid)

\* Smaz._create_lookup: every entry of DECODE is stored
Smaz_create_lookup == StoreEntries(Smaz_DECODE, 0, Len(Smaz_DECODE))

\* SmazMultilang._create_lookup: the loop breaks at the first enc_byte >= 254
SmazMultilang_create_lookup ==
  StoreEntries(SmazMultilang_DECODE, 0, Min(Len(SmazMultilang_DECODE), LookupLimit))

\* self._lookup of the engine's instance
Lookup(engine) ==
  IF engine = "Smaz" THEN Smaz_create_lookup ELSE SmazMultilang_create_lookup

(* ------------------------------------------------------------------ *)
(* Pure helpers of the engine                                         *)
(* ------------------------------------------------------------------ *)

\* text[a:b] of Python, 0-based and half open, b clipped to len(text)
Slice(text, a, b) == SubSeq(text, a + 1, Min(b, Len(text)))

\* IsAscii with the test "ord(ch) >= 256": one byte per character, not ASCII
IsAsciiLatin1(text) == \A i \in 1..Len(text) : text[i] < 2 * AsciiLimit

\* _is_ascii (Smaz) and the check_ascii loop (SmazMultilang): no ord(ch) >= 128
IsAscii(text) == \A i \in 1..Len(text) : text[i] < AsciiLimit

\* WorstSize without the case "elif length == 1: return 2"
WorstSizeNoSingle(length) ==
  IF length = 0 THEN 0
  ELSE length + (length \div MaxVerbatim) * 2
       + (IF length % MaxVerbatim > 0 THEN 2 ELSE 0)

\* _worst_size
WorstSize(length) ==
  IF length = 0 THEN 0
  ELSE IF length = 1 THEN 2
  ELSE LET full_chunks == length \div MaxVerbatim
           remainder   == length % MaxVerbatim
           overhead    == full_chunks * 2 + (IF remainder > 0 THEN 2 ELSE 0)
       IN  length + overhead

\* FlushVerbatim with the run's length byte len(buffer) instead of len(buffer) - 1
FlushVerbatimLenByte(buffer, output) ==
  IF buffer = <<>> THEN [buffer |-> buffer, output |-> output]
  ELSE IF Len(buffer) = 1
       THEN [buffer |-> <<>>, output |-> output \o <<VerbatimByte, buffer[1]>>]
       ELSE [buffer |-> <<>>,
             output |-> output \o <<VerbatimRun, Len(buffer)>> \o buffer]

\* _flush_verbatim: the output after the flush, and the cleared buffer
FlushVerbatim(buffer, output) ==
  IF buffer = <<>> THEN [buffer |-> buffer, output |-> output]
  ELSE IF Len(buffer) = 1
       THEN [buffer |-> <<>>, output |-> output \o <<VerbatimByte, buffer[1]>>]
       ELSE [buffer |-> <<>>,
             output |-> output \o <<VerbatimRun, Len(buffer) - 1>> \o buffer]

RECURSIVE FindMatchUp(_, _, _, _, _)
FindMatchUp(lookup, text, pos, k, match_len) ==
  IF k > match_len THEN 0
  ELSE IF SubSeq(text, pos + 1, pos + k) \in DOMAIN lookup THEN k
  ELSE FindMatchUp(lookup, text, pos, k + 1, match_len)

\* FindMatch with the windows tried shortest first ("range(1, n + 1)")
FindMatchShortest(lookup, text, pos, match_len) ==
  FindMatchUp(lookup, text, pos, 1, match_len)

RECURSIVE FindMatch(_, _, _, _)
\* the for loop over match_len: the first (longest) window that is a lookup key,
\* 0 when the loop ends without a break
FindMatch(lookup, text, pos, match_len) ==
  IF match_len <= 0 THEN 0
  ELSE IF Slice(text, pos, pos + match_len) \in DOMAIN lookup THEN match_len
  ELSE FindMatch(lookup, text, pos, match_len - 1)

\* best_len at position pos
BestLen(engine, text, pos) ==
  FindMatch(Lookup(engine), text, pos, Min(MaxMatchLen, Len(text) - pos))

RECURSIVE EncapsulateFrom(_, _)
\* _encapsulate, the chunks from offset i on
EncapsulateFrom(text, i) ==
  IF i >= Len(text) THEN <<>>
  ELSE LET chunk == Slice(text, i, i + MaxVerbatim)
       IN  (IF Len(chunk) = 1
            THEN <<VerbatimByte>> \o chunk
            ELSE <<VerbatimRun, Len(chunk) - 1>> \o chunk)
           \o EncapsulateFrom(text, i + MaxVerbatim)

\* _encapsulate
Encapsulate(text) == IF text = <<>> THEN text ELSE EncapsulateFrom(text, 0)

\* CompressIter without "if len(verbatim) == 255: self._flush_verbatim(...)": the
\* buffer grows until a match or the end of the text
CompressIterNoSplit(engine, text, st) ==
  LET best_len == BestLen(engine, text, st.pos)
  IN  IF best_len > 0
      THEN LET best_match == Lookup(engine)[Slice(text, st.pos, st.pos + best_len)]
               f == FlushVerbatim(st.verbatim, st.output)
           IN  [pos |-> st.pos + best_len, verbatim |-> f.buffer,
                output |-> Append(f.output, best_match)]
      ELSE [pos |-> st.pos + 1, verbatim |-> Append(st.verbatim, text[st.pos + 1]),
            output |-> st.output]

\* one pass of the while loop of compress, from the locals st = (pos, verbatim, output);
\* "if best_match:" is true exactly when the for loop broke, since chr(enc_byte)
\* is never the empty str
CompressIter(engine, text, st) ==
  LET best_len == BestLen(engine, text, st.pos)
  IN  IF best_len > 0
      THEN LET best_match == Lookup(engine)[Slice(text, st.pos, st.pos + best_len)]
               f == FlushVerbatim(st.verbatim, st.output)
           IN  [pos |-> st.pos + best_len, verbatim |-> f.buffer,
                output |-> Append(f.output, best_match)]
      ELSE LET v == Append(st.verbatim, text[st.pos + 1])
           IN  IF Len(v) = MaxVerbatim
               THEN LET f == FlushVerbatim(v, st.output)
                    IN  [pos |-> st.pos + 1, verbatim |-> f.buffer, output |-> f.output]
               ELSE [pos |-> st.pos + 1, verbatim |-> v, output |-> st.output]

\* CompressReturn without the worst-size test
CompressReturnNoFallback(text, st) == FlushVerbatim(st.verbatim, st.output).output

\* CompressReturn with the test "len(result) >= self._worst_size(max_len)"
CompressReturnEager(text, st) ==
  LET result == FlushVerbatim(st.verbatim, st.output).output
  IN  IF Len(result) >= WorstSize(Len(text)) THEN Encapsulate(text) ELSE result

\* the tail of compress: the last flush, then the worst-size test
CompressReturn(text, st) ==
  LET result == FlushVerbatim(st.verbatim, st.output).output
  IN  IF Len(result) > WorstSize(Len(text)) THEN Encapsulate(text) ELSE result

\* DecompressIter without the test "if end_pos > max_len": the slice is clipped
\* and pos runs on to end_pos
DecompressIterNoBoundsCheck(engine, compressed, st) ==
  LET ch == compressed[st.pos + 1]
  IN  IF ch < VerbatimByte
      THEN IF ch >= Len(DECODE(engine))
           THEN [pos |-> st.pos + 1, output |-> st.output, err |-> "IndexError"]
           ELSE [pos |-> st.pos + 1, output |-> st.output \o DECODE(engine)[ch + 1],
                 err |-> ""]
      ELSE IF st.pos + 1 >= Len(compressed)
           THEN [pos |-> st.pos + 1, output |-> st.output, err |-> "IndexError"]
           ELSE IF ch = VerbatimByte
                THEN [pos |-> st.pos + 2,
                      output |-> Append(st.output, compressed[st.pos + 2]), err |-> ""]
                ELSE [pos |-> st.pos + 2 + compressed[st.pos + 2] + 1,
                      output |-> st.output
                                 \o Slice(compressed, st.pos + 2,
                                          st.pos + 2 + compressed[st.pos + 2] + 1),
                      err |-> ""]

\* one pass of the while loop of decompress, from the locals st = (pos, output);
\* err names the exception the pass raises, "" when it raises none
DecompressIter(engine, compressed, st) ==
  LET max_len == Len(compressed)
      ch      == compressed[st.pos + 1]
      pos1    == st.pos + 1
  IN  IF ch < VerbatimByte
      THEN IF ch >= Len(DECODE(engine))
           THEN [pos |-> pos1, output |-> st.output, err |-> "IndexError"]
           ELSE [pos |-> pos1, output |-> st.output \o DECODE(engine)[ch + 1],
                 err |-> ""]
      ELSE IF pos1 >= max_len
           THEN [pos |-> pos1, output |-> st.output, err |-> "IndexError"]
           ELSE LET next_byte == compressed[pos1 + 1]
                    pos2      == pos1 + 1
                IN  IF ch = VerbatimByte
                    THEN [pos |-> pos2, output |-> Append(st.output, next_byte),
                          err |-> ""]
                    ELSE LET end_pos == pos2 + next_byte + 1
                         IN  IF end_pos > max_len
                             THEN [pos |-> pos2, output |-> st.output,
                                   err |-> "ValueError"]
                             ELSE [pos |-> end_pos,
                                   output |-> st.output \o Slice(compressed, pos2, end_pos),
                                   err |-> ""]

(* ------------------------------------------------------------------ *)
(* Bounds of the checked inputs                                       *)
(* ------------------------------------------------------------------ *)

\* longest text enumerated over Alphabet
MaxLen == 5

\* how far past a multiple of MaxVerbatim the long unmatched runs go
MaxOver == 2

\* longest byte stream handed directly to decompress
MaxStream == 4

\* 'e' (a key of both tables), 'X' (a key of neither), 'é' (not ASCII; a key of the
\* multilingual table only), ' ' (entry 0 of both tables)
Alphabet == {101, 88, 233, 32}

ShortTexts == UNION {[1..k -> Alphabet] : k \in 0..MaxLen}

\* what is put before and after a word or a long run: nothing, or one character
Affixes == {<<>>} \cup {<<c>> : c \in Alphabet}

\* ".com", "https://", "password", "to", "the", "http://", "ee", "{"
Words ==
  { <<46,99,111,109>>, <<104,116,116,112,115,58,47,47>>,
    <<112,97,115,115,119,111,114,100>>, <<116,111>>, <<116,104,101>>,
    <<104,116,116,112,58,47,47>>, <<101,101>>, <<123>> }

WordTexts == {a \o w \o b : a \in Affixes, w \in Words, b \in Affixes}

Run(c, n) == [i \in 1..n |-> c]

RunLengths ==
  {MaxVerbatim - 1 + k : k \in 0..MaxOver} \cup {2 * MaxVerbatim - 1 + k : k \in 0..MaxOver}

LongAffixes == {a \in Affixes : \A i \in 1..Len(a) : a[i] \in {101, 88}}

LongTexts == {a \o Run(88, n) \o b : a \in LongAffixes, n \in RunLengths, b \in LongAffixes}

Texts == ShortTexts \cup WordTexts \cup LongTexts

\* a dictionary index, a small length byte, entry 253, and the two escape codes
StreamBytes == {0, 2, 253, VerbatimByte, VerbatimRun}

Streams == UNION {[1..k -> StreamBytes] : k \in 0..MaxStream}

(* ------------------------------------------------------------------ *)
(* State                                                              *)
(* ------------------------------------------------------------------ *)

\* Python's None where a str is expected (no str holds a negative code point)
None == <<-1>>

VARIABLES
  engine,       \* which class the instance is: "Smaz" or "SmazMultilang"
  mode,         \* "roundtrip": each engine in turn compresses the text and decompresses
                \* the result; "decode": decompress is handed a stream
  instance,     \* "none" before the constructor ran, "ok" after it returned
  text,         \* compress's argument
  check_ascii,  \* compress's argument
  pc,           \* where the caller is
  pos,          \* compress: pos
  verbatim,     \* compress: verbatim
  output,       \* compress: ''.join(output)
  compressed,   \* compress's return value; decompress's argument
  d_pos,        \* decompress: pos
  d_output,     \* decompress: ''.join(output)
  decompressed, \* decompress's return value
  first,        \* what the English engine returned for this text, once the
                \* multilingual engine is given the same text
  shared,       \* the module global _smaz_instance / _smaz_multilang_instance
  objects,      \* the instances under construction or built, by identity
  threads       \* the callers of get_instance()

codec_vars == <<mode, instance, text, check_ascii, pc, pos, verbatim, output,
                compressed, d_pos, d_output, decompressed, first>>

singleton_vars == <<shared, objects, threads>>

vars == <<engine, codec_vars, singleton_vars>>

(* ------------------------------------------------------------------ *)
(* The engines used as main_test.py and test() use them: construct,   *)
(* compress, decompress the result, first with the English engine and *)
(* then, on the same text, with the multilingual one; or decompress a *)
(* given stream                                                       *)
(* ------------------------------------------------------------------ *)

SingletonIdle ==
  /\ shared = 0
  /\ objects = <<>>
  /\ threads = <<>>

Init ==
  /\ \/ /\ mode = "roundtrip"
        /\ engine = "Smaz"
        /\ text \in Texts
        /\ check_ascii \in BOOLEAN
        /\ compressed = None
     \/ /\ mode = "decode"
        /\ engine \in Engines
        /\ text = None
        /\ check_ascii = FALSE
        /\ compressed \in Streams
  /\ instance = "none"
  /\ pc = "new"
  /\ pos = 0
  /\ verbatim = <<>>
  /\ output = <<>>
  /\ d_pos = 0
  /\ d_output = <<>>
  /\ decompressed = None
  /\ first = [compressed |-> None, decompressed |-> None]
  /\ SingletonIdle

\* Smaz() / SmazMultilang(): __init__ stores the dict _create_lookup() returns;
\* neither holds a raise, whatever DECODE is
New ==
  /\ pc = "new"
  /\ instance' = "ok"
  /\ pc' = IF mode = "roundtrip" THEN "c_call" ELSE "d_call"
  /\ UNCHANGED <<engine, mode, text, check_ascii, pos, verbatim, output, compressed,
                 d_pos, d_output, decompressed, first, singleton_vars>>

\* compress: "if not text: return text"
CompressEmpty ==
  /\ pc = "c_call"
  /\ text = <<>>
  /\ compressed' = text
  /\ pc' = "d_call"
  /\ UNCHANGED <<engine, mode, instance, text, check_ascii, pos, verbatim, output,
                 d_pos, d_output, decompressed, first, singleton_vars>>

\* whether compress raises ValueError before it tokenizes
AsciiRejected(text_, check_ascii_) == check_ascii_ /\ ~IsAscii(text_)

\* compress: "raise ValueError('SMAZ solo procesa texto ASCII')"
CompressRaise ==
  /\ pc = "c_call"
  /\ text # <<>>
  /\ AsciiRejected(text, check_ascii)
  /\ pc' = "c_raise"
  /\ UNCHANGED <<engine, mode, instance, text, check_ascii, pos, verbatim, output,
                 compressed, d_pos, d_output, decompressed, first, singleton_vars>>

\* compress: output = [], verbatim = [], pos = 0
CompressBegin ==
  /\ pc = "c_call"
  /\ text # <<>>
  /\ ~AsciiRejected(text, check_ascii)
  /\ pos' = 0
  /\ verbatim' = <<>>
  /\ output' = <<>>
  /\ pc' = "c_loop"
  /\ UNCHANGED <<engine, mode, instance, text, check_ascii, compressed,
                 d_pos, d_output, decompressed, first, singleton_vars>>

CompressLocals == [pos |-> pos, verbatim |-> verbatim, output |-> output]

\* one pass of the while loop in which a lookup key matched
CompressMatch ==
  /\ pc = "c_loop"
  /\ pos < Len(text)
  /\ BestLen(engine, text, pos) > 0
  /\ LET st == CompressIter(engine, text, CompressLocals)
     IN  /\ pos' = st.pos
         /\ verbatim' = st.verbatim
         /\ output' = st.output
  /\ UNCHANGED <<engine, mode, instance, text, check_ascii, pc, compressed,
                 d_pos, d_output, decompressed, first, singleton_vars>>

\* one pass of the while loop in which no lookup key matched
CompressLiteral ==
  /\ pc = "c_loop"
  /\ pos < Len(text)
  /\ BestLen(engine, text, pos) = 0
  /\ LET st == CompressIter(engine, text, CompressLocals)
     IN  /\ pos' = st.pos
         /\ verbatim' = st.verbatim
         /\ output' = st.output
  /\ UNCHANGED <<engine, mode, instance, text, check_ascii, pc, compressed,
                 d_pos, d_output, decompressed, first, singleton_vars>>

\* after the loop: the last flush, the worst-size test, the return; the caller
\* hands the result to decompress
CompressFinish ==
  /\ pc = "c_loop"
  /\ pos >= Len(text)
  /\ compressed' = CompressReturn(text, CompressLocals)
  /\ verbatim' = <<>>
  /\ output' = FlushVerbatim(verbatim, output).output
  /\ pc' = "d_call"
  /\ UNCHANGED <<engine, mode, instance, text, check_ascii, pos,
                 d_pos, d_output, decompressed, first, singleton_vars>>

\* decompress: "if not compressed: return compressed"
DecompressEmpty ==
  /\ pc = "d_call"
  /\ compressed = <<>>
  /\ decompressed' = compressed
  /\ pc' = "done"
  /\ UNCHANGED <<engine, mode, instance, text, check_ascii, pos, verbatim, output,
                 compressed, d_pos, d_output, first, singleton_vars>>

\* decompress: output = [], pos = 0
DecompressBegin ==
  /\ pc = "d_call"
  /\ compressed # <<>>
  /\ d_pos' = 0
  /\ d_output' = <<>>
  /\ pc' = "d_loop"
  /\ UNCHANGED <<engine, mode, instance, text, check_ascii, pos, verbatim, output,
                 compressed, decompressed, first, singleton_vars>>

DecompressLocals == [pos |-> d_pos, output |-> d_output]

\* one pass of the while loop of decompress that raises nothing
DecompressStep ==
  /\ pc = "d_loop"
  /\ d_pos < Len(compressed)
  /\ LET st == DecompressIter(engine, compressed, DecompressLocals)
     IN  /\ st.err = ""
         /\ d_pos' = st.pos
         /\ d_output' = st.output
  /\ UNCHANGED <<engine, mode, instance, text, check_ascii, pc, pos, verbatim, output,
                 compressed, decompressed, first, singleton_vars>>

\* a pass that raises IndexError or ValueError: the except clause re-raises
\* ValueError('Error de descompresión: ...'), nothing is returned
DecompressRaise ==
  /\ pc = "d_loop"
  /\ d_pos < Len(compressed)
  /\ LET st == DecompressIter(engine, compressed, DecompressLocals)
     IN  /\ st.err # ""
         /\ d_pos' = st.pos
         /\ d_output' = st.output
  /\ pc' = "d_raise"
  /\ UNCHANGED <<engine, mode, instance, text, check_ascii, pos, verbatim, output,
                 compressed, decompressed, first, singleton_vars>>

\* decompress: "return ''.join(output)"
DecompressFinish ==
  /\ pc = "d_loop"
  /\ d_pos >= Len(compressed)
  /\ decompressed' = d_output
  /\ pc' = "done"
  /\ UNCHANGED <<engine, mode, instance, text, check_ascii, pos, verbatim, output,
                 compressed, d_pos, d_output, first, singleton_vars>>

\* the test loops go on after a round trip, and after the error a compress raised
\* ("except Exception as e: print(...)"): the same text now goes to the
\* multilingual engine
NextEngine ==
  /\ mode = "roundtrip"
  /\ engine = "Smaz"
  /\ pc \in {"done", "c_raise"}
  /\ first' = [compressed |-> compressed, decompressed |-> decompressed]
  /\ engine' = "SmazMultilang"
  /\ instance' = "none"
  /\ pc' = "new"
  /\ pos' = 0
  /\ verbatim' = <<>>
  /\ output' = <<>>
  /\ compressed' = None
  /\ d_pos' = 0
  /\ d_output' = <<>>
  /\ decompressed' = None
  /\ UNCHANGED <<mode, text, check_ascii, singleton_vars>>

Next ==
  \/ New
  \/ CompressEmpty
  \/ CompressRaise
  \/ CompressBegin
  \/ CompressMatch
  \/ CompressLiteral
  \/ CompressFinish
  \/ DecompressEmpty
  \/ DecompressBegin
  \/ DecompressStep
  \/ DecompressRaise
  \/ DecompressFinish
  \/ NextEngine

Spec == Init /\ [][Next]_vars

(* ------------------------------------------------------------------ *)
(* The wire format, read independently of decompress: a stream is a   *)
(* sequence of tokens, each a dictionary index (one byte below 254),  *)
(* a single literal (254, c) or a literal run (255, L, L+1 bytes)     *)
(* ------------------------------------------------------------------ *)

BadToken == [kind |-> "bad", index |-> -1, chars |-> <<>>]

RECURSIVE ParseFrom(_, _)
\* the tokens of stream from its i-th byte on; a stream that ends inside a token
\* ends in BadToken
ParseFrom(stream, i) ==
  IF i > Len(stream) THEN <<>>
  ELSE IF stream[i] < VerbatimByte
       THEN <<[kind |-> "dict", index |-> stream[i], chars |-> <<>>]>>
            \o ParseFrom(stream, i + 1)
  ELSE IF i + 1 > Len(stream) THEN <<BadToken>>
  ELSE IF stream[i] = VerbatimByte
       THEN <<[kind |-> "byte", index |-> -1, chars |-> <<stream[i + 1]>>]>>
            \o ParseFrom(stream, i + 2)
  ELSE IF i + 2 + stream[i + 1] > Len(stream) THEN <<BadToken>>
  ELSE <<[kind |-> "run", index |-> -1,
          chars |-> SubSeq(stream, i + 2, i + 2 + stream[i + 1])]>>
       \o ParseFrom(stream, i + 3 + stream[i + 1])

Tokens(stream) == ParseFrom(stream, 1)

\* the dictionary indexes a stream holds
DictIndexes(stream) ==
  {Tokens(stream)[j].index : j \in {j \in 1..Len(Tokens(stream)) : Tokens(stream)[j].kind = "dict"}}

\* no token is cut short and every dictionary index is an entry of the engine's table
WellFormed(engine_, stream) ==
  \A j \in 1..Len(Tokens(stream)) :
    /\ Tokens(stream)[j].kind # "bad"
    /\ Tokens(stream)[j].kind = "dict" => Tokens(stream)[j].index < Len(DECODE(engine_))

\* a stream of literal tokens only
OnlyLiterals(stream) ==
  \A j \in 1..Len(Tokens(stream)) : Tokens(stream)[j].kind \in {"byte", "run"}

RECURSIVE Concat(_, _)
\* the payloads of the tokens j.. of toks, joined
Concat(toks, j) ==
  IF j > Len(toks) THEN <<>> ELSE toks[j].chars \o Concat(toks, j + 1)

\* compress has returned (the caller holds its result)
Compressed == mode = "roundtrip" /\ compressed # None

\* the round trip of the current engine is over
RoundTripDone == mode = "roundtrip" /\ pc = "done"

(* ------------------------------------------------------------------ *)
(* Claims                                                             *)
(* ------------------------------------------------------------------ *)

\* C1: round trip. Whenever compress returned a stream for a text (a text it did
\* not reject under check_ascii), decompress of that stream raises nothing and
\* returns exactly the text, for the English and for the multilingual engine,
\* whether compress returned the greedy stream or the _encapsulate fallback.
C1_RoundTrip ==
  mode = "roundtrip" =>
    /\ pc # "d_raise"
    /\ pc = "done" => decompressed = text
    /\ first.compressed # None => first.decompressed = text

\* C1 witness: the multilingual engine round-tripped a text for which compress
\* returned the fallback instead of the greedy stream.
C1_Witness ==
  /\ RoundTripDone
  /\ engine = "SmazMultilang"
  /\ compressed # output
  /\ decompressed = text
  /\ text = <<88, 101, 88, 101, 88>>

\* C2: bounded expansion. The stream compress returns is never longer than
\* _worst_size(len(text)).
C2_BoundedExpansion ==
  Compressed => Len(compressed) <= WorstSize(Len(text))

\* C2 witness: a text longer than one verbatim chunk whose stream is as long as
\* the bound allows.
C2_Witness ==
  /\ Compressed
  /\ Len(text) > MaxVerbatim
  /\ Len(compressed) = WorstSize(Len(text))

\* C3: wire-format index range. Every dictionary token compress emits is a byte
\* in 0..252; 253, 254 and 255 are never emitted as a dictionary index.
C3_IndexRange ==
  Compressed => \A b \in DictIndexes(compressed) : b <= 252

\* C4: malformed-stream rejection. decompress returns only for a stream in which
\* no token is cut short and every dictionary index is a table entry; when it
\* raises it returns nothing; its cursor never passes the end of the stream and
\* equals the stream's length when it returns.
C4_MalformedRejected ==
  compressed # None =>
    /\ d_pos <= Len(compressed)
    /\ decompressed # None => d_pos = Len(compressed) /\ WellFormed(engine, compressed)
    /\ pc = "d_raise" => decompressed = None /\ ~WellFormed(engine, compressed)
    /\ (pc = "d_loop" /\ d_pos = Len(compressed)) => WellFormed(engine, compressed)

\* C4 witness: decompress raised on [255, 2], a run header that claims three bytes
\* and supplies none.
C4_Witness ==
  /\ mode = "decode"
  /\ compressed = <<VerbatimRun, 2>>
  /\ pc = "d_raise"
  /\ decompressed = None

\* C5: ASCII mode. With check_ascii set, compress of a non-empty text holding a
\* character of code 128 or more raises and leaves no output; with check_ascii
\* unset compress never raises, whatever the characters.
C5_AsciiMode ==
  mode = "roundtrip" =>
    /\ (check_ascii /\ \E i \in 1..Len(text) : text[i] >= 128)
         => (pc \in {"new", "c_call", "c_raise"} /\ compressed = None /\ output = <<>>)
    /\ pc = "c_raise" => (check_ascii /\ compressed = None /\ output = <<>>)

\* C5 witness: compress raised on "eé" under check_ascii.
C5_Witness ==
  /\ pc = "c_raise"
  /\ check_ascii
  /\ text = <<101, 233>>
  /\ compressed = None

\* C7: dictionary construction rejects bad tables. An engine whose table has more
\* than 253 entries, or an empty entry, is never constructed.
C7_RejectsBadTables ==
  instance = "ok" =>
    /\ Len(DECODE(engine)) <= 253
    /\ \A i \in 1..Len(DECODE(engine)) : DECODE(engine)[i] # <<>>

\* both engines have been given the text and both round trips are over
BothDone ==
  /\ RoundTripDone
  /\ engine = "SmazMultilang"
  /\ first.compressed # None

\* C8 as stated: the two engines never return the same stream for the same
\* string, and each stream decompresses back under its own engine.
C8_AlwaysDifferent ==
  BothDone =>
    /\ first.compressed # compressed
    /\ first.decompressed = text
    /\ decompressed = text

\* C8 amended: each stream decompresses back to the string under the engine that
\* produced it; the two streams need not differ, and are the same stream
\* whenever neither of them holds a dictionary token.
C8_SwapRoundTrips ==
  BothDone =>
    /\ first.decompressed = text
    /\ decompressed = text
    /\ (OnlyLiterals(first.compressed) /\ OnlyLiterals(compressed))
         => first.compressed = compressed

\* C8 witness: "the" is one token under the English engine (entry 1) and another
\* under the multilingual one (entry 110), and both decompress back.
C8_Witness ==
  /\ BothDone
  /\ text = <<116, 104, 101>>
  /\ first.compressed = <<1>>
  /\ compressed = <<110>>
  /\ first.decompressed = text
  /\ decompressed = text

\* the window lengths at pos for which text[pos:pos+k] is a key of the lookup
MatchingLengths ==
  {k \in 1..Min(MaxMatchLen, Len(text) - pos) :
     Slice(text, pos, pos + k) \in DOMAIN Lookup(engine)}

SetMax(S) == CHOOSE m \in S : \A x \in S : x <= m

\* C9: greedy longest match. In every pass of the tokenizer loop: if some window
\* of 1..min(7, remaining) characters at pos is a lookup key, the pending literals
\* are flushed, the token appended is the index of the longest such window (an
\* entry of at most 7 characters that spells that window) and pos advances by the
\* window's length; otherwise text[pos] joins the literal buffer (which is flushed
\* as one run when it reaches 255 characters) and pos advances by 1.
C9_GreedyLongestMatch ==
  [][ (pc = "c_loop" /\ pc' = "c_loop" /\ pos' # pos) =>
        IF MatchingLengths # {}
        THEN LET k   == SetMax(MatchingLengths)
                 tok == output'[Len(output')]
             IN  /\ pos' = pos + k
                 /\ verbatim' = <<>>
                 /\ Len(output') = Len(FlushVerbatim(verbatim, output).output) + 1
                 /\ tok = Lookup(engine)[Slice(text, pos, pos + k)]
                 /\ DECODE(engine)[tok + 1] = Slice(text, pos, pos + k)
                 /\ Len(DECODE(engine)[tok + 1]) <= MaxMatchLen
        ELSE /\ pos' = pos + 1
             /\ \/ /\ verbatim' = Append(verbatim, text[pos + 1])
                   /\ output' = output
                \/ /\ Len(verbatim) = MaxVerbatim - 1
                   /\ verbatim' = <<>>
                   /\ output' = output \o <<VerbatimRun, MaxVerbatim - 1>>
                                       \o Append(verbatim, text[pos + 1])
    ]_vars

\* C9 witness: the multilingual engine tokenized "https://", which is entry 233 of
\* its table and 8 characters long, without emitting 233.
C9_Witness ==
  /\ Compressed
  /\ engine = "SmazMultilang"
  /\ text = <<104, 116, 116, 112, 115, 58, 47, 47>>
  /\ SmazMultilang_DECODE[233 + 1] = text
  /\ 233 \notin DictIndexes(compressed)
  /\ compressed = output

\* C10: fallback policy. compress returns _encapsulate(text) when the greedy
\* stream is strictly longer than _worst_size(len(text)) and the greedy stream
\* unchanged otherwise; the fallback holds literal tokens only, of at most 255
\* characters each, which joined in order spell the text.
C10_FallbackPolicy ==
  Compressed =>
    IF Len(output) > WorstSize(Len(text))
    THEN /\ compressed = Encapsulate(text)
         /\ compressed # output
         /\ OnlyLiterals(compressed)
         /\ Concat(Tokens(compressed), 1) = text
         /\ \A j \in 1..Len(Tokens(compressed)) :
              Len(Tokens(compressed)[j].chars) \in 1..MaxVerbatim
    ELSE compressed = output

\* C10 witness: "XeXeX" under the English engine: a greedy stream of 8 bytes
\* against a worst size of 7, and the fallback returned.
C10_Witness ==
  /\ Compressed
  /\ engine = "Smaz"
  /\ text = <<88, 101, 88, 101, 88>>
  /\ output = <<254, 88, 2, 254, 88, 2, 254, 88>>
  /\ compressed = <<255, 4, 88, 101, 88, 101, 88>>

\* compress is in or past its tokenizer loop: output holds the greedy stream so far
Tokenizing == mode = "roundtrip" /\ pc \in {"c_loop", "d_call", "d_loop", "done"}

IsLiteral(tok) == tok.kind \in {"byte", "run"}

RECURSIVE Expand(_, _, _)
\* what the tokens j.. of toks stand for: a dictionary token for its table entry, a
\* literal token for its characters
Expand(engine_, toks, j) ==
  IF j > Len(toks) THEN <<>>
  ELSE (IF toks[j].kind = "dict" THEN DECODE(engine_)[toks[j].index + 1]
        ELSE toks[j].chars)
       \o Expand(engine_, toks, j + 1)

\* C11: literal token forms. At every point of the tokenizer loop and after it, the
\* greedy stream is a sequence of whole tokens which, followed by the pending
\* literals, spells the text read so far in order; a literal of one character is
\* [254, c] and a run token carries 2..255 characters; of two literal tokens in a
\* row (one unmatched span) the first carries exactly 255 characters, so a span of
\* n characters takes ceil(n/255) tokens; the pending buffer never holds more than
\* 255 characters and is empty once the last flush is done.
C11_LiteralForms ==
  Tokenizing =>
    LET toks == Tokens(output)
    IN  /\ Len(verbatim) <= MaxVerbatim
        /\ pc # "c_loop" => verbatim = <<>>
        /\ Expand(engine, toks, 1) \o verbatim = SubSeq(text, 1, pos)
        /\ \A j \in 1..Len(toks) :
             /\ toks[j].kind # "bad"
             /\ toks[j].kind = "byte" => Len(toks[j].chars) = 1
             /\ toks[j].kind = "run" => Len(toks[j].chars) \in 2..MaxVerbatim
             /\ (IsLiteral(toks[j]) /\ j < Len(toks) /\ IsLiteral(toks[j + 1]))
                  => Len(toks[j].chars) = MaxVerbatim
             /\ (IsLiteral(toks[j]) /\ j = Len(toks) /\ pc = "c_loop")
                  => Len(toks[j].chars) = MaxVerbatim

\* C11 witness: an unmatched text of 509 characters came out as two run tokens, of
\* 255 and of 254 characters.
C11_Witness ==
  /\ Compressed
  /\ text = Run(88, 2 * MaxVerbatim - 1)
  /\ output = <<VerbatimRun, MaxVerbatim - 1>> \o Run(88, MaxVerbatim)
               \o <<VerbatimRun, MaxVerbatim - 2>> \o Run(88, MaxVerbatim - 1)

\* compress has run its worst-size test on a text and returned
HasText == Compressed

\* C12 as stated: for every input length, _worst_size(n) is the length of
\* _encapsulate of a text of n characters.
C12_WorstSizeIsEncapsulation ==
  HasText => WorstSize(Len(text)) = Len(Encapsulate(text))

\* C12 amended: _worst_size(n) is never below the length of _encapsulate of a text
\* of n characters; the two are equal except for n > 1 with n % 255 = 1, where the
\* last chunk is one character, _encapsulate spends [254, c] on it and
\* _worst_size, which counts a run header, is one more.
C12_WorstSizeBoundsEncapsulation ==
  HasText =>
    LET n == Len(text)
    IN  IF n > 1 /\ n % MaxVerbatim = 1
        THEN WorstSize(n) = Len(Encapsulate(text)) + 1
        ELSE WorstSize(n) = Len(Encapsulate(text))

\* C12 witness: compress returned for a text of 256 characters, whose worst size is
\* 260 and whose encapsulation is 259 bytes long.
C12_Witness ==
  /\ Compressed
  /\ Len(text) = MaxVerbatim + 1
  /\ WorstSize(Len(text)) = 260
  /\ Len(Encapsulate(text)) = 259

(* ------------------------------------------------------------------ *)
(* get_instance(): the module-level shared engine, called from        *)
(* several threads (MicroPython's _thread) before it exists           *)
(* ------------------------------------------------------------------ *)

\* callers of get_instance()
NumThreads == 2

Threads == 1..NumThreads

\* the passes of _create_lookup's loop that store an entry
Stores(engine_) ==
  IF engine_ = "Smaz" THEN Len(Smaz_DECODE)
  ELSE Min(Len(SmazMultilang_DECODE), LookupLimit)

CodecIdle ==
  /\ mode = "singleton"
  /\ instance = "none"
  /\ text = None
  /\ check_ascii = FALSE
  /\ pc = "idle"
  /\ pos = 0
  /\ verbatim = <<>>
  /\ output = <<>>
  /\ compressed = None
  /\ d_pos = 0
  /\ d_output = <<>>
  /\ decompressed = None
  /\ first = [compressed |-> None, decompressed |-> None]

\* "_smaz_instance = None" at import; no caller has run yet
SingletonInit ==
  /\ engine \in Engines
  /\ CodecIdle
  /\ shared = 0
  /\ objects = <<>>
  /\ threads = [t \in Threads |-> [pc |-> "call", obj |-> 0, built |-> 0, ret |-> 0]]

\* "if _smaz_instance is None:" read as None: the caller goes on to Smaz(), which
\* allocates the object and enters __init__
GetInstanceTestNone(t) ==
  /\ threads[t].pc = "call"
  /\ shared = 0
  /\ objects' = Append(objects, [lookup |-> "unset"])
  /\ threads' = [threads EXCEPT ![t] = [pc |-> "init", obj |-> Len(objects) + 1,
                                        built |-> 0, ret |-> 0]]
  /\ UNCHANGED <<engine, codec_vars, shared>>

\* "if _smaz_instance is None:" read as set: straight to the return
GetInstanceTestSet(t) ==
  /\ threads[t].pc = "call"
  /\ shared # 0
  /\ threads' = [threads EXCEPT ![t].pc = "return"]
  /\ UNCHANGED <<engine, codec_vars, shared, objects>>

\* one store of _create_lookup's loop, into the local dict
CreateLookupStore(t) ==
  /\ threads[t].pc = "init"
  /\ threads[t].built < Stores(engine)
  /\ threads' = [threads EXCEPT ![t].built = @ + 1]
  /\ UNCHANGED <<engine, codec_vars, shared, objects>>

\* the loop is over: "self._lookup = self._create_lookup()" stores the whole dict
InitSetLookup(t) ==
  /\ threads[t].pc = "init"
  /\ threads[t].built >= Stores(engine)
  /\ objects' = [objects EXCEPT ![threads[t].obj].lookup = "built"]
  /\ threads' = [threads EXCEPT ![t].pc = "assign"]
  /\ UNCHANGED <<engine, codec_vars, shared>>

\* "_smaz_instance = Smaz()": the global is rebound to the new object
AssignShared(t) ==
  /\ threads[t].pc = "assign"
  /\ shared' = threads[t].obj
  /\ threads' = [threads EXCEPT ![t].pc = "return"]
  /\ UNCHANGED <<engine, codec_vars, objects>>

\* "return _smaz_instance": the global is read again
GetInstanceReturn(t) ==
  /\ threads[t].pc = "return"
  /\ threads' = [threads EXCEPT ![t].pc = "done", ![t].ret = shared]
  /\ UNCHANGED <<engine, codec_vars, shared, objects>>

SingletonNext ==
  \E t \in Threads :
    \/ GetInstanceTestNone(t)
    \/ GetInstanceTestSet(t)
    \/ CreateLookupStore(t)
    \/ InitSetLookup(t)
    \/ AssignShared(t)
    \/ GetInstanceReturn(t)

SpecSingleton == SingletonInit /\ [][SingletonNext]_vars

\* C6: lazy singleton under concurrent first use. However the callers of
\* get_instance() interleave, the constructor is entered at most once, all callers
\* that have returned hold the same instance, and an instance a caller holds has
\* its lookup completely built.
C6_SingletonOnce ==
  /\ Len(objects) <= 1
  /\ \A t1 \in Threads, t2 \in Threads :
       (threads[t1].ret # 0 /\ threads[t2].ret # 0) => threads[t1].ret = threads[t2].ret
  /\ \A t \in Threads :
       threads[t].ret # 0 => objects[threads[t].ret].lookup = "built"
====
